---------------------------- MODULE Spec2Model ----------------------------
(***************************************************************************)
(* A model of the GitVfs container of src/src/lib.rs: an object map, a     *)
(* reference map and an optional HEAD, with the eight store operations.    *)
(* Each operation is an operator from the container (and its arguments) to *)
(* the container after the call and the value returned; each action calls  *)
(* one operation with arguments drawn from small sets and records the call.*)
(***************************************************************************)
EXTENDS Integers, Sequences, FiniteSets, TLC

VARIABLES objects,        \* HashMap<String, Vec<u8>>
          refs,           \* HashMap<String, String>
          head,           \* Option<String>
          last,           \* the call just made: operation, arguments, result
          first_created,  \* history: identifier -> content of its first Ok create
          refs_created,   \* history: the names some create_ref call has named
          head_set,       \* history: the name of the last Ok set_head, if any
          before          \* history: the container as it was before the last call

vars == <<objects, refs, head, last, first_created, refs_created, head_set,
          before>>

-----------------------------------------------------------------------------
(* Bounds and input sets *)

MaxLen == 1

Bytes == {104, 105}

RECURSIVE SeqsOfLen(_)
SeqsOfLen(n) ==
    IF n = 0 THEN {<<>>}
    ELSE {Append(s, b) : s \in SeqsOfLen(n - 1), b \in Bytes}

Contents == UNION {SeqsOfLen(n) : n \in 0..MaxLen}

-----------------------------------------------------------------------------
(* Values of the Rust types *)

NotFound == "NotFound"
AlreadyExists == "AlreadyExists"
InvalidOperation == "InvalidOperation"
GitVfsError == {NotFound, AlreadyExists, InvalidOperation}

Ok(v) == [kind |-> "Ok", val |-> v]
Err(e) == [kind |-> "Err", val |-> e]

Unit == <<>>

None == <<>>
Some(x) == <<x>>

EmptyMap == <<>>

contains_key(m, k) == k \in DOMAIN m

insert(m, k, v) == [x \in (DOMAIN m) \cup {k} |-> IF x = k THEN v ELSE m[x]]

Digit(d) ==
    CASE d = 0 -> "0" [] d = 1 -> "1" [] d = 2 -> "2" [] d = 3 -> "3"
      [] d = 4 -> "4" [] d = 5 -> "5" [] d = 6 -> "6" [] d = 7 -> "7"
      [] d = 8 -> "8" [] d = 9 -> "9"

\* format! that emits the digits least significant first.
RECURSIVE format_reversed(_)
format_reversed(n) ==
    IF n < 10 THEN Digit(n) ELSE Digit(n % 10) \o format_reversed(n \div 10)

RECURSIVE format(_)
format(n) == IF n < 10 THEN Digit(n) ELSE format(n \div 10) \o Digit(n % 10)

Hashes == {format(n) : n \in 0..MaxLen}

RefNames == {"refs/heads/main", "missing"}

RefTargets == {format(0), "new_hash"}

-----------------------------------------------------------------------------
(* The operations: container and arguments to container and result *)

GitVfs(o, r, h) == [objects |-> o, refs |-> r, head |-> h]

Ret(self, res) == [self |-> self, res |-> res]

\* new with HEAD preset to the default branch name, as `git init` does.
new_with_head == GitVfs(EmptyMap, EmptyMap, Some("refs/heads/main"))

new == GitVfs(EmptyMap, EmptyMap, None)

\* create_object that tests for the key with HashMap::remove.
create_object_removing(self, hash, data) ==
    IF contains_key(self.objects, hash)
    THEN Ret([self EXCEPT !.objects = [x \in (DOMAIN @) \ {hash} |-> @[x]]],
             Err(AlreadyExists))
    ELSE Ret([self EXCEPT !.objects = insert(@, hash, data)], Ok(Unit))

\* create_object without the contains_key test: the insert overwrites.
create_object_unchecked(self, hash, data) ==
    Ret([self EXCEPT !.objects = insert(@, hash, data)], Ok(Unit))

create_object(self, hash, data) ==
    IF contains_key(self.objects, hash)
    THEN Ret(self, Err(AlreadyExists))
    ELSE Ret([self EXCEPT !.objects = insert(@, hash, data)], Ok(Unit))

\* get_object with unwrap_or_default: an absent identifier reads as empty.
get_object_or_default(self, hash) ==
    IF hash \in DOMAIN self.objects
    THEN Ret(self, Ok(self.objects[hash]))
    ELSE Ret(self, Ok(<<>>))

get_object(self, hash) ==
    IF hash \in DOMAIN self.objects
    THEN Ret(self, Ok(self.objects[hash]))
    ELSE Ret(self, Err(NotFound))

\* create_ref that points an unset HEAD at the first reference made.
create_ref_heading(self, ref_name, hash) ==
    Ret([self EXCEPT !.refs = insert(@, ref_name, hash),
                     !.head = IF @ = None THEN Some(ref_name) ELSE @],
        Ok(Unit))

\* create_ref with the create-once test of create_object.
create_ref_once(self, ref_name, hash) ==
    IF contains_key(self.refs, ref_name)
    THEN Ret(self, Err(AlreadyExists))
    ELSE Ret([self EXCEPT !.refs = insert(@, ref_name, hash)], Ok(Unit))

\* create_ref that refuses a target that is not a stored object.
create_ref_validated(self, ref_name, hash) ==
    IF ~contains_key(self.objects, hash)
    THEN Ret(self, Err(NotFound))
    ELSE Ret([self EXCEPT !.refs = insert(@, ref_name, hash)], Ok(Unit))

create_ref(self, ref_name, hash) ==
    Ret([self EXCEPT !.refs = insert(@, ref_name, hash)], Ok(Unit))

get_ref(self, ref_name) ==
    IF ref_name \in DOMAIN self.refs
    THEN Ret(self, Ok(self.refs[ref_name]))
    ELSE Ret(self, Err(NotFound))

\* update_ref without the contains_key test: an upsert.
update_ref_upsert(self, ref_name, hash) ==
    Ret([self EXCEPT !.refs = insert(@, ref_name, hash)], Ok(Unit))

\* update_ref that inserts first and tests the old key set afterwards.
update_ref_insert_first(self, ref_name, hash) ==
    LET after == [self EXCEPT !.refs = insert(@, ref_name, hash)]
    IN  IF ~contains_key(self.refs, ref_name)
        THEN Ret(after, Err(NotFound))
        ELSE Ret(after, Ok(Unit))

\* update_ref that rebuilds the map around the updated entry.
update_ref_rebuilding(self, ref_name, hash) ==
    IF ~contains_key(self.refs, ref_name)
    THEN Ret(self, Err(NotFound))
    ELSE Ret([self EXCEPT !.refs = insert(EmptyMap, ref_name, hash)], Ok(Unit))

update_ref(self, ref_name, hash) ==
    IF ~contains_key(self.refs, ref_name)
    THEN Ret(self, Err(NotFound))
    ELSE Ret([self EXCEPT !.refs = insert(@, ref_name, hash)], Ok(Unit))

\* set_head that reports an unknown name as InvalidOperation.
set_head_invalid(self, ref_name) ==
    IF ~contains_key(self.refs, ref_name)
    THEN Ret(self, Err(InvalidOperation))
    ELSE Ret([self EXCEPT !.head = Some(ref_name)], Ok(Unit))

\* set_head that assigns the looked-up name, None when the lookup fails.
set_head_clearing(self, ref_name) ==
    IF ~contains_key(self.refs, ref_name)
    THEN Ret([self EXCEPT !.head = None], Err(NotFound))
    ELSE Ret([self EXCEPT !.head = Some(ref_name)], Ok(Unit))

\* set_head without the contains_key test.
set_head_unchecked(self, ref_name) ==
    Ret([self EXCEPT !.head = Some(ref_name)], Ok(Unit))

set_head(self, ref_name) ==
    IF ~contains_key(self.refs, ref_name)
    THEN Ret(self, Err(NotFound))
    ELSE Ret([self EXCEPT !.head = Some(ref_name)], Ok(Unit))

\* get_head that resolves the name through the reference map.
get_head_resolved(self) ==
    IF self.head # None
    THEN get_ref(self, self.head[1])
    ELSE Ret(self, Err(NotFound))

get_head(self) ==
    IF self.head # None
    THEN Ret(self, Ok(self.head[1]))
    ELSE Ret(self, Err(NotFound))

\* create_blob that accepts a repeat of the content already stored.
create_blob_idempotent(self, data) ==
    LET hash == format(Len(data))
        r == create_object(self, hash, data)
    IN  IF r.res.kind = "Err" /\ self.objects[hash] # data
        THEN r
        ELSE Ret(r.self, Ok(hash))

\* create_blob that inserts into the map itself instead of delegating.
create_blob_insert(self, data) ==
    LET hash == format(Len(data))
    IN  Ret([self EXCEPT !.objects = insert(@, hash, data)], Ok(hash))

\* create_blob that addresses the blob by its content (one digit per byte)
\* instead of by its length.
RECURSIVE content_digits(_)
content_digits(data) ==
    IF data = <<>> THEN "b"
    ELSE content_digits(SubSeq(data, 1, Len(data) - 1)) \o Digit(data[Len(data)] % 10)

create_blob_by_content(self, data) ==
    LET hash == content_digits(data)
        r == create_object(self, hash, data)
    IN  IF r.res.kind = "Err" THEN r ELSE Ret(r.self, Ok(hash))

create_blob(self, data) ==
    LET hash == format(Len(data))
        r == create_object(self, hash, data)
    IN  IF r.res.kind = "Err" THEN r ELSE Ret(r.self, Ok(hash))

-----------------------------------------------------------------------------
\* The digest is the work of the sha2 and hex crates: it is kept as a value
\* determined by the bytes hashed, distinct for distinct inputs.
hex_sha256(data_to_hash) == [sha256_hex_of |-> data_to_hash]

Value(v) == [kind |-> "Value", val |-> v]

\* data_sha256 that also files the data hashed as a blob.
data_sha256_storing(self, data_to_hash) ==
    Ret(create_blob(self, data_to_hash).self, Value(hex_sha256(data_to_hash)))

data_sha256(self, data_to_hash) ==
    Ret(self, Value(hex_sha256(data_to_hash)))

-----------------------------------------------------------------------------
(* The state machine *)

Self == GitVfs(objects, refs, head)

Call(op, args, r) ==
    /\ objects' = r.self.objects
    /\ refs' = r.self.refs
    /\ head' = r.self.head
    /\ last' = [op |-> op, args |-> args, res |-> r.res]
    /\ before' = Self

Init ==
    /\ objects = new.objects
    /\ refs = new.refs
    /\ head = new.head
    /\ last = [op |-> "new", args |-> <<>>, res |-> Ok(Unit)]
    /\ first_created = EmptyMap
    /\ refs_created = {}
    /\ head_set = None
    /\ before = new

NoteCreated(hash, data, r) ==
    first_created' =
        IF r.res.kind = "Ok" /\ hash \notin DOMAIN first_created
        THEN insert(first_created, hash, data)
        ELSE first_created

CreateObject ==
    \E hash \in Hashes, data \in Contents :
        LET r == create_object(Self, hash, data) IN
        /\ Call("create_object", <<hash, data>>, r)
        /\ NoteCreated(hash, data, r)
        /\ UNCHANGED <<refs_created, head_set>>

GetObject ==
    \E hash \in Hashes :
        /\ Call("get_object", <<hash>>, get_object(Self, hash))
        /\ UNCHANGED <<first_created, refs_created, head_set>>

CreateBlob ==
    \E data \in Contents :
        LET r == create_blob(Self, data) IN
        /\ Call("create_blob", <<data>>, r)
        /\ NoteCreated(format(Len(data)), data, r)
        /\ UNCHANGED <<refs_created, head_set>>

CreateRef ==
    \E ref_name \in RefNames, hash \in RefTargets :
        LET r == create_ref(Self, ref_name, hash) IN
        /\ Call("create_ref", <<ref_name, hash>>, r)
        /\ refs_created' = refs_created \cup {ref_name}
        /\ UNCHANGED <<first_created, head_set>>

GetRef ==
    \E ref_name \in RefNames :
        /\ Call("get_ref", <<ref_name>>, get_ref(Self, ref_name))
        /\ UNCHANGED <<first_created, refs_created, head_set>>

UpdateRef ==
    \E ref_name \in RefNames, hash \in RefTargets :
        /\ Call("update_ref", <<ref_name, hash>>, update_ref(Self, ref_name, hash))
        /\ UNCHANGED <<first_created, refs_created, head_set>>

SetHead ==
    \E ref_name \in RefNames :
        LET r == set_head(Self, ref_name) IN
        /\ Call("set_head", <<ref_name>>, r)
        /\ head_set' = IF r.res.kind = "Ok" THEN Some(ref_name) ELSE head_set
        /\ UNCHANGED <<first_created, refs_created>>

GetHead ==
    /\ Call("get_head", <<>>, get_head(Self))
    /\ UNCHANGED <<first_created, refs_created, head_set>>

DataSha256 ==
    \E data_to_hash \in Contents :
        /\ Call("data_sha256", <<data_to_hash>>, data_sha256(Self, data_to_hash))
        /\ UNCHANGED <<first_created, refs_created, head_set>>

Next ==
    \/ CreateObject
    \/ GetObject
    \/ CreateBlob
    \/ CreateRef
    \/ GetRef
    \/ UpdateRef
    \/ SetHead
    \/ GetHead
    \/ DataSha256

Spec == Init /\ [][Next]_vars

-----------------------------------------------------------------------------
(* The calls of the driver, src/src/main.rs, with the driver's own arguments, *)
(* made in any order and any number of times on a new container.            *)

\* b"Hello, git virtual world!"
blob_data ==
    <<72, 101, 108, 108, 111, 44, 32, 103, 105, 116, 32, 118, 105, 114, 116,
      117, 97, 108, 32, 119, 111, 114, 108, 100, 33>>

blob_hash == format(Len(blob_data))

DriverHashes == {blob_hash, "26"}

DriverRefNames == {"refs/heads/main"}

DriverRefTargets == {blob_hash, "26", "new_hash"}

DriverDataSha256 ==
    /\ Call("data_sha256", <<blob_data>>, data_sha256(Self, blob_data))
    /\ UNCHANGED <<first_created, refs_created, head_set>>

DriverCreateBlob ==
    LET r == create_blob(Self, blob_data) IN
    /\ Call("create_blob", <<blob_data>>, r)
    /\ NoteCreated(blob_hash, blob_data, r)
    /\ UNCHANGED <<refs_created, head_set>>

DriverGetObject ==
    \E hash \in DriverHashes :
        /\ Call("get_object", <<hash>>, get_object(Self, hash))
        /\ UNCHANGED <<first_created, refs_created, head_set>>

DriverCreateRef ==
    \E ref_name \in DriverRefNames, hash \in DriverRefTargets :
        LET r == create_ref(Self, ref_name, hash) IN
        /\ Call("create_ref", <<ref_name, hash>>, r)
        /\ refs_created' = refs_created \cup {ref_name}
        /\ UNCHANGED <<first_created, head_set>>

DriverSetHead ==
    \E ref_name \in DriverRefNames :
        LET r == set_head(Self, ref_name) IN
        /\ Call("set_head", <<ref_name>>, r)
        /\ head_set' = IF r.res.kind = "Ok" THEN Some(ref_name) ELSE head_set
        /\ UNCHANGED <<first_created, refs_created>>

DriverGetHead ==
    /\ Call("get_head", <<>>, get_head(Self))
    /\ UNCHANGED <<first_created, refs_created, head_set>>

DriverGetRef ==
    \E ref_name \in DriverRefNames :
        /\ Call("get_ref", <<ref_name>>, get_ref(Self, ref_name))
        /\ UNCHANGED <<first_created, refs_created, head_set>>

DriverUpdateRef ==
    \E ref_name \in DriverRefNames, hash \in DriverRefTargets :
        /\ Call("update_ref", <<ref_name, hash>>, update_ref(Self, ref_name, hash))
        /\ UNCHANGED <<first_created, refs_created, head_set>>

DriverNext ==
    \/ DriverDataSha256
    \/ DriverCreateBlob
    \/ DriverGetObject
    \/ DriverCreateRef
    \/ DriverSetHead
    \/ DriverGetHead
    \/ DriverGetRef
    \/ DriverUpdateRef

SpecDriver == Init /\ [][DriverNext]_vars

-----------------------------------------------------------------------------
(* Properties *)

Op == last.op
Res == last.res
Arg(i) == last.args[i]
Failed == Res.kind = "Err"

\* C1 (create-once): a create_object(h, c2) call on an identifier whose first
\* successful creation stored c1 # c2 returns AlreadyExists, and get_object(h)
\* after it still returns c1.
C1_CreateOnce ==
    (Op = "create_object"
        /\ Arg(1) \in DOMAIN first_created
        /\ Arg(2) # first_created[Arg(1)])
    => /\ Res = Err(AlreadyExists)
       /\ get_object(Self, Arg(1)).res = Ok(first_created[Arg(1)])

C1_Witness ==
    /\ Op = "create_object"
    /\ Arg(1) \in DOMAIN first_created
    /\ Arg(2) # first_created[Arg(1)]
    /\ Arg(1) \in DOMAIN before.objects

\* C2 (object immutability): in every state the content stored under an
\* identifier is the content of the first successful creation of that
\* identifier, and no call changes or removes the content an identifier had
\* before the call.
C2_ObjectImmutable ==
    /\ DOMAIN objects = DOMAIN first_created
    /\ \A h \in DOMAIN objects : objects[h] = first_created[h]
    /\ \A h \in DOMAIN before.objects :
          h \in DOMAIN objects /\ objects[h] = before.objects[h]

C2_Witness ==
    /\ Op = "create_blob"
    /\ Failed
    /\ Arg(1) # objects[format(Len(Arg(1)))]
    /\ refs # EmptyMap
    /\ head # None

\* C3 (read-your-write): after a successful create_object(h, c), get_object(h)
\* returns exactly c (empty content included); every get_object call returns
\* the content first created under its identifier, and NotFound when the
\* identifier was never created.
C3_ReadYourWrite ==
    /\ (Op = "create_object" /\ ~Failed)
          => get_object(Self, Arg(1)).res = Ok(Arg(2))
    /\ Op = "get_object"
          => Res = IF Arg(1) \in DOMAIN first_created
                   THEN Ok(first_created[Arg(1)])
                   ELSE Err(NotFound)

C3_Witness ==
    /\ Op = "get_object"
    /\ Res = Ok(<<>>)
    /\ \E h \in Hashes : h \notin DOMAIN first_created

\* C4 (HEAD validity): HEAD is unset or names a key of the reference map.
C4_HeadValid == head = None \/ head[1] \in DOMAIN refs

C4_Witness ==
    /\ Op = "set_head"
    /\ ~Failed
    /\ head = Some(Arg(1))
    /\ DOMAIN refs # RefNames

\* C5 (no partial mutation on failure): a call that returns an error leaves
\* the object map, the reference map and HEAD as they were before the call.
C5_FailureLeavesState ==
    Failed => objects = before.objects /\ refs = before.refs /\ head = before.head

C5_Witness ==
    /\ Failed
    /\ Op = "update_ref"
    /\ objects # EmptyMap
    /\ refs # EmptyMap
    /\ head # None

\* C6 (update requires existence): update_ref on a name no create_ref call has
\* named returns NotFound and get_ref of that name is NotFound after it; every
\* key of the reference map has been named by an earlier create_ref call.
C6_UpdateRequiresExistence ==
    /\ (Op = "update_ref" /\ Arg(1) \notin refs_created)
          => /\ Res = Err(NotFound)
             /\ get_ref(Self, Arg(1)).res = Err(NotFound)
    /\ DOMAIN refs \subseteq refs_created

C6_Witness ==
    /\ Op = "update_ref"
    /\ Arg(1) \notin refs_created
    /\ refs_created # {}

\* C7 (ref create is idempotent-overwrite): every create_ref(name, t) call
\* returns Ok, whether or not name was a key before the call, and get_ref(name)
\* after it returns t.
C7_CreateRefOverwrites ==
    Op = "create_ref"
    => /\ Res = Ok(Unit)
       /\ get_ref(Self, Arg(1)).res = Ok(Arg(2))

C7_Witness ==
    /\ Op = "create_ref"
    /\ Arg(1) \in DOMAIN before.refs
    /\ before.refs[Arg(1)] # Arg(2)
    /\ get_ref(Self, Arg(1)).res = Ok(Arg(2))

\* C8 (HEAD requires a valid ref): set_head(name) returns NotFound and leaves
\* HEAD as it was when name is not a key of the reference map; otherwise it
\* returns Ok and HEAD holds name.
C8_SetHeadRequiresRef ==
    Op = "set_head"
    => IF Arg(1) \in DOMAIN before.refs
       THEN Res = Ok(Unit) /\ head = Some(Arg(1))
       ELSE Res = Err(NotFound) /\ head = before.head

C8_Witness ==
    /\ Op = "set_head"
    /\ Res = Err(NotFound)
    /\ before.head # None
    /\ head = before.head

\* C9 (HEAD indirection): get_head returns the name of the last successful
\* set_head, not that reference's target; a successful update_ref or create_ref
\* leaves the result of get_head as it was, while get_ref of the named
\* reference returns the new target.
C9_HeadIndirection ==
    /\ Op = "get_head"
          => Res = IF head_set = None THEN Err(NotFound) ELSE Ok(head_set[1])
    /\ (Op \in {"update_ref", "create_ref"} /\ ~Failed)
          => /\ get_head(Self).res = get_head(before).res
             /\ get_head(Self).res =
                   IF head_set = None THEN Err(NotFound) ELSE Ok(head_set[1])
             /\ get_ref(Self, Arg(1)).res = Ok(Arg(2))

C9_Witness ==
    /\ Op = "update_ref"
    /\ ~Failed
    /\ head = Some(Arg(1))
    /\ before.refs[Arg(1)] # Arg(2)

\* C10 (HEAD state machine): a new container has HEAD unset; while no set_head
\* has succeeded HEAD is unset and get_head returns NotFound; a call made with
\* HEAD pointing at a name leaves HEAD pointing at a name, so get_head does not
\* return NotFound again.
C10_HeadStateMachine ==
    /\ Op = "new" => head = None
    /\ head_set = None => head = None /\ get_head(Self).res = Err(NotFound)
    /\ before.head # None => head # None /\ get_head(Self).res.kind = "Ok"

C10_Witness ==
    /\ before.head # None
    /\ Op = "create_ref"
    /\ head = Some(Arg(1))

\* C11 (blob collision): create_blob names the blob by the decimal length of
\* its content, so a create_blob(c2) call made when a blob c1 # c2 of the same
\* length is stored returns AlreadyExists, and get_object of that identifier
\* still returns c1.
C11_BlobCollision ==
    LET id == format(Len(Arg(1))) IN
    (Op = "create_blob"
        /\ id \in DOMAIN before.objects
        /\ Len(before.objects[id]) = Len(Arg(1))
        /\ before.objects[id] # Arg(1))
    => /\ Res = Err(AlreadyExists)
       /\ get_object(Self, id).res = Ok(before.objects[id])

C11_Witness ==
    LET id == format(Len(Arg(1))) IN
    /\ Op = "create_blob"
    /\ id \in DOMAIN before.objects
    /\ Len(before.objects[id]) = Len(Arg(1))
    /\ before.objects[id] # Arg(1)
    /\ Res = Err(AlreadyExists)

\* C12 (driver scenario, as amended): on a new container,
\* create_blob(b"Hello, git virtual world!"), whose content is 25 bytes long,
\* returns the identifier "25", and get_object("25") then returns
\* b"Hello, git virtual world!" exactly.
C12_DriverBlob ==
    /\ Len(blob_data) = 25
    /\ (Op = "create_blob" /\ Arg(1) = blob_data /\ before = new)
          => /\ Res = Ok("25")
             /\ get_object(Self, "25").res = Ok(blob_data)
    /\ (Op = "get_object" /\ Arg(1) = "25" /\ ~Failed) => Res = Ok(blob_data)

C12_Witness ==
    /\ Op = "get_object"
    /\ Arg(1) = "25"
    /\ Res = Ok(blob_data)
    /\ first_created = insert(EmptyMap, "25", blob_data)

\* C12 as stated: the content is 26 bytes long, the identifier returned is
\* "26", and get_object("26") returns the content.
C12_AsStated ==
    (Op = "create_blob" /\ Arg(1) = blob_data /\ before = new)
    => /\ Len(blob_data) = 26
       /\ Res = Ok("26")
       /\ get_object(Self, "26").res = Ok(blob_data)

\* C13 (update_ref success): an update_ref(name, t) call on a name that is a
\* key of the reference map returns Ok, get_ref(name) then returns t, and the
\* set of names and the targets of all other names are as before the call.
C13_UpdateRefSuccess ==
    (Op = "update_ref" /\ Arg(1) \in DOMAIN before.refs)
    => /\ Res = Ok(Unit)
       /\ get_ref(Self, Arg(1)).res = Ok(Arg(2))
       /\ DOMAIN refs = DOMAIN before.refs
       /\ \A n \in DOMAIN before.refs \ {Arg(1)} : refs[n] = before.refs[n]

C13_Witness ==
    /\ Op = "update_ref"
    /\ DOMAIN before.refs = RefNames
    /\ before.refs[Arg(1)] # Arg(2)
    /\ refs[Arg(1)] = Arg(2)
    /\ \E n \in RefNames \ {Arg(1)} : refs[n] # Arg(2)

\* C14 (refs are not validated against objects): create_ref(name, t), and
\* update_ref(name, t) on an existing name, return Ok and store t whether or
\* not t is an identifier of the object map; the reference map may then hold
\* a target for which get_object returns NotFound.
C14_RefsNotValidated ==
    (\/ Op = "create_ref"
     \/ Op = "update_ref" /\ Arg(1) \in DOMAIN before.refs)
    => /\ Res = Ok(Unit)
       /\ refs[Arg(1)] = Arg(2)
       /\ Arg(2) \notin DOMAIN objects
             => get_object(Self, refs[Arg(1)]).res = Err(NotFound)

C14_Witness ==
    /\ Op \in {"create_ref", "update_ref"}
    /\ ~Failed
    /\ objects # EmptyMap
    /\ \E n \in DOMAIN refs : refs[n] \in DOMAIN objects
    /\ get_object(Self, refs[Arg(1)]).res = Err(NotFound)

\* The error kinds the operations are specified to return.
ErrorKindOf(op) ==
    CASE op \in {"create_object", "create_blob"} -> {AlreadyExists}
      [] op \in {"get_object", "get_ref", "update_ref", "set_head", "get_head"}
            -> {NotFound}
      [] OTHER -> {}

\* C15 (InvalidOperation is never produced): every call of the eight store
\* operations returns Ok or the one error kind of its operation: AlreadyExists
\* for create_object and create_blob, NotFound for get_object, get_ref,
\* update_ref, set_head and get_head, none for create_ref.
C15_NoInvalidOperation ==
    /\ Res.kind \in {"Ok", "Err", "Value"}
    /\ Res.kind = "Value" <=> Op = "data_sha256"
    /\ Failed => Res.val \in ErrorKindOf(Op) /\ Res.val # InvalidOperation

C15_Witness ==
    /\ Op = "get_head"
    /\ Res = Err(NotFound)
    /\ objects # EmptyMap
    /\ DOMAIN refs = RefNames

\* C16 (reads and hashing are side-effect free): a get_object, get_ref,
\* get_head or data_sha256 call, successful or not, leaves the object map, the
\* reference map and HEAD as they were before the call.
C16_ReadsLeaveState ==
    Op \in {"get_object", "get_ref", "get_head", "data_sha256"}
    => objects = before.objects /\ refs = before.refs /\ head = before.head

C16_Witness ==
    /\ Op = "data_sha256"
    /\ format(Len(Arg(1))) \notin DOMAIN objects
    /\ objects # EmptyMap
    /\ refs # EmptyMap
    /\ head # None

\* C17 (no deletion): no call removes an object identifier or a reference
\* name: every identifier and name readable before a call is readable after
\* it, and every identifier ever created and every name ever named by
\* create_ref is readable in every state.
C17_NoDeletion ==
    /\ DOMAIN before.objects \subseteq DOMAIN objects
    /\ DOMAIN before.refs \subseteq DOMAIN refs
    /\ \A h \in DOMAIN first_created : get_object(Self, h).res.kind = "Ok"
    /\ \A n \in refs_created : get_ref(Self, n).res.kind = "Ok"
    /\ \A h \in Hashes :
          get_object(before, h).res.kind = "Ok" => get_object(Self, h).res.kind = "Ok"
    /\ \A n \in RefNames :
          get_ref(before, n).res.kind = "Ok" => get_ref(Self, n).res.kind = "Ok"

C17_Witness ==
    /\ DOMAIN before.objects = Hashes
    /\ DOMAIN before.refs = RefNames
    /\ Op = "create_object"
    /\ Failed
    /\ DOMAIN objects = Hashes

\* C18 (create_blob success condition): create_blob(c) returns Ok, with the
\* decimal length of c as identifier and c stored under it, exactly when no
\* object had that identifier before the call, however it was created;
\* otherwise it returns AlreadyExists and the object stored there, identical
\* to c or unrelated to it, stays.
C18_CreateBlobSuccess ==
    LET id == format(Len(Arg(1))) IN
    Op = "create_blob"
    => IF id \notin DOMAIN before.objects
       THEN Res = Ok(id) /\ objects = insert(before.objects, id, Arg(1))
       ELSE Res = Err(AlreadyExists) /\ objects = before.objects

C18_Witness ==
    LET id == format(Len(Arg(1))) IN
    /\ Op = "create_blob"
    /\ Res = Err(AlreadyExists)
    /\ Len(objects[id]) # Len(Arg(1))
    /\ \E h \in DOMAIN objects : h # id /\ objects[h] = Arg(1)

\* C19 (namespace independence): create_object and create_blob change at most
\* the object map; create_ref and update_ref change at most the entry of the
\* name given in the reference map; set_head changes at most HEAD.
C19_NamespaceIndependence ==
    /\ Op \in {"create_object", "create_blob"}
          => refs = before.refs /\ head = before.head
    /\ Op \in {"create_ref", "update_ref"}
          => /\ objects = before.objects
             /\ head = before.head
             /\ \A n \in DOMAIN before.refs \ {Arg(1)} :
                   n \in DOMAIN refs /\ refs[n] = before.refs[n]
             /\ DOMAIN refs \subseteq DOMAIN before.refs \cup {Arg(1)}
    /\ Op = "set_head"
          => objects = before.objects /\ refs = before.refs

C19_Witness ==
    /\ Op = "create_ref"
    /\ Arg(1) \notin DOMAIN before.refs
    /\ before.refs # EmptyMap
    /\ before.objects # EmptyMap
    /\ head = None

====
